---------------------------- MODULE Spec2Model ----------------------------
(***************************************************************************)
(* ROIMaskPoolingLayer (src/caffe/layers/roi_mask_pooling_layer.cpp):      *)
(* LayerSetUp, Reshape and Forward_cpu as a state machine.                 *)
(*                                                                         *)
(* Dtype values of the feature map are integers on a scale on which        *)
(* NegFltMax stands for Dtype(-FLT_MAX); a smaller integer stands for a    *)
(* Dtype below -FLT_MAX (-inf).  Coordinates, scales and bin sizes are     *)
(* Dtype values of the float instantiation of the layer, and every         *)
(* operation on them rounds as float arithmetic does.                      *)
(* Blobs are flat arrays (functions on 0 .. count-1), addressed through    *)
(* the pointer offsets the code steps.                                     *)
(***************************************************************************)
EXTENDS Integers, Sequences, FiniteSets, TLC

VARIABLES
  layer_param,  \* layer_param_.roi_mask_pooling_param(): pooled_h, ... mask_scale
  param,        \* the members LayerSetUp stores: pooled_height_, ... mask_scale_
  bottom,       \* bottom[0]: [num, channels, height, width, data]
  rois,         \* bottom[1]: sequence of 5-tuples of Dtype, one per ROI
  channels_, height_, width_,   \* members set by Reshape
  top_data,     \* top[0] data, flat
  argmax_data,  \* max_idx_ data, flat
  pc,           \* position: "setup", "aborted", "reshape", "forward", "roi",
                \* "channel", "done", "failed"
  n, c,         \* loop counters of Forward_cpu
  top_ptr,      \* offset of top_data / argmax_data pointers into their blobs
  batch_ptr,    \* offset of batch_data into bottom[0] data
  roi,          \* locals of the current ROI iteration (lines 67-114)
  reads,        \* bottom[0] offsets read by the last channel iteration
  writes,       \* top[0] offsets read or written by the last channel iteration
  par_top, par_arg,   \* output of the (roi, channel) units executed out of order
  par_pc,             \* "idle", "units", "done"
  par_done,           \* the units executed so far
  par_last,           \* the unit executed last
  par_touched         \* <<roi, channel, offset>>: the top[0] offsets each unit read or wrote

vars == <<layer_param, param, bottom, rois, channels_, height_, width_, top_data, argmax_data,
          pc, n, c, top_ptr, batch_ptr, roi, reads, writes,
          par_top, par_arg, par_pc, par_done, par_last, par_touched>>

-----------------------------------------------------------------------------
(* Dtype arithmetic, for Dtype = float.  A Dtype is the dyadic rational it  *)
(* holds, written <<numerator, denominator>> in lowest terms with a power   *)
(* of two as denominator.  Every operation returns the Dtype nearest to the *)
(* exact result, ties to the even significand (IEEE 754 round-to-nearest);  *)
(* the exponent range of Dtype, which no value here approaches, is not      *)
(* bounded.                                                                 *)

\* FLT_MANT_DIG: the significand bits of a float
MantDig == 24

Max(a, b) == IF a < b THEN b ELSE a
Min(a, b) == IF b < a THEN b ELSE a
Abs(v) == IF v < 0 THEN -v ELSE v

\* the number of binary digits of v >= 0
RECURSIVE BitLen(_)
BitLen(v) ==
  IF v >= 65536 THEN 16 + BitLen(v \div 65536)
  ELSE IF v >= 256 THEN 8 + BitLen(v \div 256)
  ELSE IF v >= 16 THEN 4 + BitLen(v \div 16)
  ELSE IF v >= 4 THEN 2 + BitLen(v \div 4)
  ELSE IF v >= 2 THEN 2
  ELSE v

\* <<m', e'>> with m' odd (or 0) and m' * 2^e' = m * 2^e
RECURSIVE Odd(_, _)
Odd(m, e) ==
  IF m = 0 THEN <<0, 0>>
  ELSE IF m % 2 = 0 THEN Odd(m \div 2, e + 1)
  ELSE <<m, e>>

\* the binary exponent of the denominator of a Dtype: a = a[1] * 2^Expo(a)
Expo(a) == 1 - BitLen(a[2])

\* the odd significand and the binary exponent of a Dtype
SigExp(a) == Odd(a[1], Expo(a))

\* o[1] * 2^o[2], o[1] odd or 0, as <<numerator, denominator>>
FromOdd(o) == IF o[2] < 0 THEN <<o[1], 2^(-o[2])>> ELSE <<o[1] * 2^(o[2]), 1>>

\* m * 2^e as <<numerator, denominator>> in lowest terms
Dyadic(m, e) == FromOdd(Odd(m, e))

Signed(neg, v) == IF neg THEN -v ELSE v

\* q * 2^e with the bits r cut off below it, half the weight of its last bit:
\* up when r is above half, or at half and q is odd
RoundCut(neg, q, r, half, e) ==
  Dyadic(Signed(neg, IF r > half \/ (r = half /\ q % 2 = 1) THEN q + 1 ELSE q), e)

\* m * 2^e with its k last bits cut off, if k > 0
RoundShift(m, e, k) ==
  IF k <= 0 THEN Dyadic(m, e)
  ELSE RoundCut(m < 0, Abs(m) \div 2^k, Abs(m) % 2^k, 2^(k - 1), e + k)

\* the Dtype nearest to m * 2^e, ties to the even significand
RoundDtype(m, e) == RoundShift(m, e, BitLen(Abs(m)) - MantDig)

\* m / d in lowest terms, d a power of two
RECURSIVE Lowest(_, _)
Lowest(m, d) ==
  IF d = 1 \/ m % 2 = 1 THEN <<m, d>>
  ELSE IF m = 0 THEN <<0, 1>>
  ELSE Lowest(m \div 2, d \div 2)

\* the Dtype nearest to m / d, d a power of two
RoundRatio(m, d) ==
  IF Abs(m) < 2^MantDig THEN Lowest(m, d) ELSE RoundDtype(m, 1 - BitLen(d))

\* static_cast<Dtype>(i) of an int
FromInt(i) == RoundRatio(i, 1)

\* mhi * 2^(top - MantDig) + (-)mlo * 2^(top - MantDig - gap - 3), both of
\* MantDig bits: mlo is aligned four bits below the last bit of mhi, the bits
\* shifted out of it kept as one odd bit below, and the sum is rounded
AddJam(mhi, neg, mlo, top, gap) ==
  RoundDtype(16 * mhi
               + Signed(neg, 2 * (IF gap > MantDig + 3 THEN 0 ELSE mlo \div 2^gap)
                               + (IF gap > MantDig + 3 THEN 1
                                  ELSE IF mlo % 2^gap = 0 THEN 0 ELSE 1)),
             top - MantDig - 4)

\* hi + lo of odd significands and exponents, hi of the larger magnitude
AddAligned(hi, lo, top, gap) ==
  AddJam(hi[1] * 2^(MantDig - BitLen(Abs(hi[1]))), lo[1] < 0,
         8 * Abs(lo[1]) * 2^(MantDig - BitLen(Abs(lo[1]))), top, gap)

\* x + y of odd significands and exponents, neither 0, whose leading bits
\* weigh 2^(tx - 1) and 2^(ty - 1)
AddTops(x, y, tx, ty) ==
  IF tx >= ty THEN AddAligned(x, y, tx, tx - ty) ELSE AddAligned(y, x, ty, ty - tx)

AddOdd(x, y) ==
  IF x[1] = 0 THEN FromOdd(y)
  ELSE IF y[1] = 0 THEN FromOdd(x)
  ELSE AddTops(x, y, BitLen(Abs(x[1])) + x[2], BitLen(Abs(y[1])) + y[2])

\* a + b over the denominator d of the two: when both numerators over d are
\* under 2^29 their sum is formed and rounded
AddOver(a, b, d) ==
  IF Abs(a[1]) < 2^29 \div (d \div a[2]) /\ Abs(b[1]) < 2^29 \div (d \div b[2])
  THEN RoundRatio(a[1] * (d \div a[2]) + b[1] * (d \div b[2]), d)
  ELSE AddOdd(SigExp(a), SigExp(b))

\* a + b in Dtype
RAdd(a, b) == AddOver(a, b, Max(a[2], b[2]))

\* a - b in Dtype
RSub(a, b) == RAdd(a, <<-b[1], b[2]>>)

\* (hh * 2^24 + ll) * 2^e of at least 30 bits: its leading 28 bits are kept,
\* the s bits below as one odd bit, and the product is rounded
MulJam(hh, ll, s, neg, e) ==
  RoundDtype(Signed(neg, 2 * (hh * 2^(24 - s) + ll \div 2^s)
                           + (IF ll % 2^s = 0 THEN 0 ELSE 1)),
             e + s - 1)

\* (high * 2^24 + mid * 2^12 + low) * 2^e as hh * 2^24 + ll, ll < 2^24
MulParts(high, mid, low, neg, e) ==
  MulJam(high + mid \div 4096 + ((mid % 4096) * 4096 + low) \div 2^24,
         ((mid % 4096) * 4096 + low) % 2^24,
         BitLen(high + mid \div 4096 + ((mid % 4096) * 4096 + low) \div 2^24) - 4,
         neg, e)

\* the product of two significands given as 12-bit halves
MulHalves(ph, pl, qh, ql, neg, e) ==
  MulParts(ph * qh, ph * ql + pl * qh, pl * ql, neg, e)

\* x * y of odd significands and exponents: a product of at most 30 bits is
\* formed and rounded, a longer one is formed from 12-bit halves
MulOdd(x, y) ==
  IF BitLen(Abs(x[1])) + BitLen(Abs(y[1])) <= 30
  THEN RoundDtype(x[1] * y[1], x[2] + y[2])
  ELSE MulHalves(Abs(x[1]) \div 4096, Abs(x[1]) % 4096,
                 Abs(y[1]) \div 4096, Abs(y[1]) % 4096,
                 (x[1] < 0) # (y[1] < 0), x[2] + y[2])

\* a * b in Dtype
RMul(a, b) ==
  IF Abs(a[1]) < 2^15 /\ Abs(b[1]) < 2^15 /\ a[2] < 2^15 /\ b[2] < 2^15
  THEN RoundRatio(a[1] * b[1], a[2] * b[2])
  ELSE MulOdd(SigExp(a), SigExp(b))

\* the long division of r * 2^k by d, continued until the quotient q has
\* MantDig + 2 bits or the remainder is 0; returns <<q, r, e>>
RECURSIVE Quotient(_, _, _, _)
Quotient(q, r, d, e) ==
  IF r = 0 \/ q >= 2^(MantDig + 1) THEN <<q, r, e>>
  ELSE IF 2 * r >= d THEN Quotient(2 * q + 1, 2 * r - d, d, e - 1)
  ELSE Quotient(2 * q, 2 * r, d, e - 1)

\* the quotient qr = <<q, r, e>> with the remainder kept as one odd bit below
\* it, rounded
DivJam(qr, neg) ==
  RoundDtype(Signed(neg, 2 * qr[1] + (IF qr[2] = 0 THEN 0 ELSE 1)), qr[3] - 1)

\* x / y of odd significands and exponents, y # 0
DivOdd(x, y) ==
  DivJam(Quotient(Abs(x[1]) \div Abs(y[1]), Abs(x[1]) % Abs(y[1]), Abs(y[1]),
                  x[2] - y[2]),
         (x[1] < 0) # (y[1] < 0))

\* a / b in Dtype, b # 0
RDiv(a, b) == DivOdd(SigExp(a), SigExp(b))

\* static_cast<Dtype>(a) / static_cast<Dtype>(b) of two ints
Rat(a, b) == RDiv(FromInt(a), FromInt(b))

\* a / 2 in Dtype
RHalf(a) ==
  IF a[2] = 1 /\ a[1] % 2 = 0 THEN <<a[1] \div 2, 1>>
  ELSE IF a[1] % 2 = 1 THEN <<a[1], 2 * a[2]>>
  ELSE Dyadic(a[1], Expo(a) - 1)

REq(a, b) == a = b \/ Dyadic(a[1], Expo(a)) = Dyadic(b[1], Expo(b))
RGt(a, b) == RSub(a, b)[1] > 0

\* std::floor, std::ceil followed by static_cast<int>
Floor(a) == a[1] \div a[2]
Ceil(a) == -((-a[1]) \div a[2])
\* C round(): to nearest, halves away from zero; then the conversion to int
Round(a) ==
  IF a[2] = 1 THEN a[1]
  ELSE IF a[1] >= 0 THEN (a[1] + a[2] \div 2) \div a[2]
  ELSE -(((-a[1]) + a[2] \div 2) \div a[2])

\* Dtype(-FLT_MAX) on the integer value scale
NegFltMax == -3

\* Blob::offset(n, c) of a blob of the given channels, height, width
Offset(chn, hgt, wid, in, ic) == ((in * chn + ic) * hgt) * wid

-----------------------------------------------------------------------------
(* Lines 65-114: the geometry of one ROI.                                   *)

\* the check with an off-by-one upper bound (CHECK_LE for CHECK_LT)
BatchIndOkInclusive(roi_batch_ind, batch_size) ==
  roi_batch_ind >= 0 /\ roi_batch_ind <= batch_size

\* lines 68-69: CHECK_GE(roi_batch_ind, 0); CHECK_LT(roi_batch_ind, batch_size)
BatchIndOk(roi_batch_ind, batch_size) ==
  roi_batch_ind >= 0 /\ roi_batch_ind < batch_size

\* the switch with the center of the other axis in cases 1 and 3
HalfPartOtherCenter(half_part, xx1, xx2, yy1, yy2, xc, yc) ==
  CASE half_part = 1 -> <<xx1, yc, yy1, yy2>>
    [] half_part = 2 -> <<xc, xx2, yy1, yy2>>
    [] half_part = 3 -> <<xx1, xx2, yy1, xc>>
    [] half_part = 4 -> <<xx1, xx2, yc, yy2>>
    [] OTHER -> <<xx1, xx2, yy1, yy2>>

\* lines 83-90: the switch on half_part_; returns <<xx1, xx2, yy1, yy2>>
HalfPart(half_part, xx1, xx2, yy1, yy2, xc, yc) ==
  CASE half_part = 1 -> <<xx1, xc, yy1, yy2>>
    [] half_part = 2 -> <<xc, xx2, yy1, yy2>>
    [] half_part = 3 -> <<xx1, xx2, yy1, yc>>
    [] half_part = 4 -> <<xx1, xx2, yc, yy2>>
    [] OTHER -> <<xx1, xx2, yy1, yy2>>

\* lines 92-95, 104-107: round(v * spatial_scale_ + spatial_shift_)
ToFeature(v, p) == Round(RAdd(RMul(v, p.spatial_scale_), p.spatial_shift_))

\* lines 109-110: max(end - start + 1, 1)
RoiExtent(start, end) == Max(end - start + 1, 1)

\* lines 74-75: (v1 + v2) / 2
Center(v1, v2) == RHalf(RAdd(v1, v2))
\* lines 79-82, 99-102: center - len * scale / 2, center + len * scale / 2
Lower(center, len, scale) == RSub(center, RHalf(RMul(len, scale)))
Upper(center, len, scale) == RAdd(center, RHalf(RMul(len, scale)))

\* lines 98, 109-114: the locals of the ROI iteration, of its bounds on the
\* feature map; xx = <<xx1, xx2, yy1, yy2>>,
\* on = <<roi_start_w, roi_start_h, roi_end_w, roi_end_h>>,
\* mask = <<mask_start_w, mask_start_h, mask_end_w, mask_end_h>>
ROIOnMap(roi_batch_ind, xc, yc, xx, on, mask, p) ==
  [roi_batch_ind |-> roi_batch_ind,
   xc |-> xc, yc |-> yc,
   xx1 |-> xx[1], xx2 |-> xx[2], yy1 |-> xx[3], yy2 |-> xx[4],
   roi_start_w |-> on[1], roi_start_h |-> on[2],
   roi_end_w |-> on[3], roi_end_h |-> on[4],
   isMask |-> RGt(p.mask_scale_, FromInt(0)),
   mask_start_w |-> mask[1], mask_start_h |-> mask[2],
   mask_end_w |-> mask[3], mask_end_h |-> mask[4],
   roi_height |-> RoiExtent(on[2], on[4]),
   roi_width |-> RoiExtent(on[1], on[3]),
   bin_size_h |-> Rat(RoiExtent(on[2], on[4]), p.pooled_height_),
   bin_size_w |-> Rat(RoiExtent(on[1], on[3]), p.pooled_width_)]

\* lines 92-95, 104-107: the rescaled ROI xx and the rescaled mask
\* mm = <<mx1, mx2, my1, my2>> on the feature map
ROIRescaled(roi_batch_ind, xc, yc, xx, mm, p) ==
  ROIOnMap(roi_batch_ind, xc, yc, xx,
           <<ToFeature(xx[1], p), ToFeature(xx[3], p),
             ToFeature(xx[2], p), ToFeature(xx[4], p)>>,
           <<ToFeature(mm[1], p), ToFeature(mm[3], p),
             ToFeature(mm[2], p), ToFeature(mm[4], p)>>,
           p)

\* lines 79-90, 99-102: the ROI and the mask rescaled about the center
ROICentered(roi_batch_ind, xc, yc, w, h, p) ==
  ROIRescaled(roi_batch_ind, xc, yc,
              HalfPart(p.half_part_,
                       Lower(xc, w, p.roi_scale_), Upper(xc, w, p.roi_scale_),
                       Lower(yc, h, p.roi_scale_), Upper(yc, h, p.roi_scale_),
                       xc, yc),
              <<Lower(xc, w, p.mask_scale_), Upper(xc, w, p.mask_scale_),
                Lower(yc, h, p.mask_scale_), Upper(yc, h, p.mask_scale_)>>,
              p)

\* lines 67-114.  r is one row of bottom[1]: r[1] = bottom_rois[0], x1 = r[2] =
\* bottom_rois[1], x2 = r[3], y1 = r[4], y2 = r[5] = bottom_rois[4]
ROIGeometry(r, p) ==
  ROICentered(r[1],
              Center(FromInt(r[2]), FromInt(r[3])),
              Center(FromInt(r[4]), FromInt(r[5])),
              RSub(FromInt(r[3]), FromInt(r[2])),
              RSub(FromInt(r[5]), FromInt(r[4])),
              p)

-----------------------------------------------------------------------------
(* Lines 119-163: one channel of one ROI.                                   *)

\* the clamp without its lower bound
ClampAbove(v, limit) == Min(v, limit)

\* lines 133-136: min(max(v, 0), limit)
Clamp(v, limit) == Min(Max(v, 0), limit)

\* lines 124-136: the clamped pooling region of output unit (ph, pw)
Window(g, ph, pw, hgt, wid) ==
  [hstart |-> Clamp(Floor(RMul(FromInt(ph), g.bin_size_h)) + g.roi_start_h, hgt),
   hend |-> Clamp(Ceil(RMul(FromInt(ph + 1), g.bin_size_h)) + g.roi_start_h, hgt),
   wstart |-> Clamp(Floor(RMul(FromInt(pw), g.bin_size_w)) + g.roi_start_w, wid),
   wend |-> Clamp(Ceil(RMul(FromInt(pw + 1), g.bin_size_w)) + g.roi_start_w, wid)]

\* line 138
IsEmpty(win) == (win.hend <= win.hstart) \/ (win.wend <= win.wstart)

\* lines 152-153: the inclusive mask rectangle
InMask(g, h, w) ==
  /\ w >= g.mask_start_w /\ w <= g.mask_end_w
  /\ h >= g.mask_start_h /\ h <= g.mask_end_h

\* the mask never applied
MaskedValueRaw(g, h, w, raw) == raw

\* lines 149-156: the value compared, of the raw value read at (h, w)
MaskedValue(g, h, w, raw) == IF g.isMask /\ InMask(g, h, w) THEN 0 ELSE raw

\* the comparison with >= for >
ExceedsOrEquals(value, current) == value >= current

\* line 157
Exceeds(value, current) == value > current

\* line 149: batch_data[index]; no offset outside the blob is ever read
\* (C10_AccessesInBounds), the ELSE only keeps the operator total
ReadData(data, off) == IF off \in DOMAIN data THEN data[off] ELSE 0

\* line 140
PoolIndex(ph, pw, pooled_width) == ph * pooled_width + pw

\* lines 146-162: the scan of one region from cell (h, w) on, in loop order;
\* acc is top_data[pool_index], argmax_data[pool_index] and the offsets read
RECURSIVE ScanRegion(_, _, _, _, _, _, _, _)
ScanRegion(g, win, h, w, acc, data, base, wid) ==
  IF h >= win.hend THEN acc
  ELSE IF w >= win.wend THEN ScanRegion(g, win, h + 1, win.wstart, acc, data, base, wid)
  ELSE LET index == h * wid + w
           value == MaskedValue(g, h, w, ReadData(data, base + index))
           nxt == IF Exceeds(value, acc.top)
                  THEN [top |-> value, arg |-> index, reads |-> acc.reads \cup {base + index}]
                  ELSE [acc EXCEPT !.reads = @ \cup {base + index}]
       IN ScanRegion(g, win, h, w + 1, nxt, data, base, wid)

\* lines 121-162: output unit (ph, pw) of the channel whose output starts at
\* tptr and whose input starts at base; st = [top, arg, reads, writes]
PoolUnit(g, ph, pw, st, tptr, base, p, data, hgt, wid) ==
  LET win == Window(g, ph, pw, hgt, wid)
      pool_index == PoolIndex(ph, pw, p.pooled_width_)
      at == tptr + pool_index
      cur == IF IsEmpty(win)
             THEN [top |-> 0, arg |-> -1, reads |-> {}]
             ELSE [top |-> st.top[at], arg |-> st.arg[at], reads |-> {}]
      res == ScanRegion(g, win, win.hstart, win.wstart, cur, data, base, wid)
  IN [top |-> [st.top EXCEPT ![at] = res.top],
      arg |-> [st.arg EXCEPT ![at] = res.arg],
      reads |-> st.reads \cup res.reads,
      writes |-> st.writes \cup {at}]

\* lines 119-164: the ph and pw loops from (ph, pw) on
RECURSIVE PoolChannel(_, _, _, _, _, _, _, _, _, _)
PoolChannel(g, ph, pw, st, tptr, base, p, data, hgt, wid) ==
  IF ph >= p.pooled_height_ THEN st
  ELSE IF pw >= p.pooled_width_
       THEN PoolChannel(g, ph + 1, 0, st, tptr, base, p, data, hgt, wid)
  ELSE PoolChannel(g, ph, pw + 1,
                   PoolUnit(g, ph, pw, st, tptr, base, p, data, hgt, wid),
                   tptr, base, p, data, hgt, wid)

-----------------------------------------------------------------------------
(* The layer's operations.                                                  *)

NumRois == Len(rois)                 \* bottom[1]->num()
\* top[0]->count() after Reshape
TopCount == NumRois * channels_ * param.pooled_height_ * param.pooled_width_
NoRoi == [roi_batch_ind |-> -1]
\* the members before LayerSetUp has stored them
NoParam == [stored |-> FALSE]

parVars == <<par_top, par_arg, par_pc, par_done, par_last, par_touched>>

\* lines 23-26: CHECK_GT(pooled_h, 0) and CHECK_GT(pooled_w, 0)
SetUpOk(m) == m.pooled_h > 0 /\ m.pooled_w > 0

\* lines 27-33: the members stored from the message
Members(m) ==
  [pooled_height_ |-> m.pooled_h, pooled_width_ |-> m.pooled_w,
   spatial_scale_ |-> m.spatial_scale, spatial_shift_ |-> m.spatial_shift,
   half_part_ |-> m.half_part, roi_scale_ |-> m.roi_scale,
   mask_scale_ |-> m.mask_scale]

\* lines 19-37: a failed CHECK aborts before any member is stored, and neither
\* Reshape nor Forward_cpu runs on the layer
LayerSetUp ==
  /\ pc = "setup"
  /\ IF SetUpOk(layer_param)
       THEN param' = Members(layer_param) /\ pc' = "reshape"
       ELSE param' = param /\ pc' = "aborted"
  /\ UNCHANGED <<layer_param, bottom, rois, channels_, height_, width_, top_data,
                 argmax_data, n, c, top_ptr, batch_ptr, roi, reads, writes>>
  /\ UNCHANGED parVars

\* lines 40-49; freshly shaped blobs are zero-filled
Reshape ==
  /\ pc = "reshape"
  /\ channels_' = bottom.channels
  /\ height_' = bottom.height
  /\ width_' = bottom.width
  /\ LET cnt == NumRois * bottom.channels * param.pooled_height_ * param.pooled_width_
     IN /\ top_data' = [i \in 0 .. cnt - 1 |-> 0]
        /\ argmax_data' = [i \in 0 .. cnt - 1 |-> 0]
  /\ pc' = "forward"
  /\ UNCHANGED <<layer_param, param, bottom, rois, n, c, top_ptr, batch_ptr, roi, reads, writes>>
  /\ UNCHANGED parVars

\* lines 54-63 and the start of the loop of line 66
ForwardBegin ==
  /\ pc = "forward"
  /\ top_data' = [i \in 0 .. TopCount - 1 |-> NegFltMax]
  /\ argmax_data' = [i \in 0 .. TopCount - 1 |-> -1]
  /\ n' = 0
  /\ top_ptr' = 0
  /\ pc' = "roi"
  /\ UNCHANGED <<layer_param, param, bottom, rois, channels_, height_, width_, c, batch_ptr, roi,
                 reads, writes>>
  /\ UNCHANGED parVars

\* lines 66-116: the head of one ROI iteration, up to the channel loop
ForwardROI ==
  /\ pc = "roi"
  /\ n < NumRois
  /\ LET g == ROIGeometry(rois[n + 1], param)
     IN IF BatchIndOk(g.roi_batch_ind, bottom.num)
        THEN /\ roi' = g
             /\ batch_ptr' = Offset(bottom.channels, bottom.height, bottom.width,
                                    g.roi_batch_ind, 0)
             /\ c' = 0
             /\ pc' = "channel"
        ELSE /\ pc' = "failed"
             /\ UNCHANGED <<roi, batch_ptr, c>>
  /\ UNCHANGED <<layer_param, param, bottom, rois, channels_, height_, width_, top_data, argmax_data,
                 n, top_ptr, reads, writes>>
  /\ UNCHANGED parVars

\* lines 118-169: one iteration of the channel loop
ForwardChannel ==
  /\ pc = "channel"
  /\ c < channels_
  /\ LET st == PoolChannel(roi, 0, 0,
                           [top |-> top_data, arg |-> argmax_data,
                            reads |-> {}, writes |-> {}],
                           top_ptr, batch_ptr, param, bottom.data, height_, width_)
     IN /\ top_data' = st.top
        /\ argmax_data' = st.arg
        /\ reads' = st.reads
        /\ writes' = st.writes
  /\ batch_ptr' = batch_ptr + Offset(bottom.channels, bottom.height, bottom.width, 0, 1)
  /\ top_ptr' = top_ptr + Offset(channels_, param.pooled_height_, param.pooled_width_, 0, 1)
  /\ c' = c + 1
  /\ UNCHANGED <<layer_param, param, bottom, rois, channels_, height_, width_, pc, n, roi>>
  /\ UNCHANGED parVars

\* lines 118, 170-172: the channel loop ends, the ROI pointer advances
ForwardNextROI ==
  /\ pc = "channel"
  /\ c >= channels_
  /\ n' = n + 1
  /\ pc' = "roi"
  /\ UNCHANGED <<layer_param, param, bottom, rois, channels_, height_, width_, top_data, argmax_data,
                 c, top_ptr, batch_ptr, roi, reads, writes>>
  /\ UNCHANGED parVars

\* lines 66, 173: the ROI loop ends
ForwardReturn ==
  /\ pc = "roi"
  /\ n >= NumRois
  /\ pc' = "done"
  /\ UNCHANGED <<layer_param, param, bottom, rois, channels_, height_, width_, top_data, argmax_data,
                 n, c, top_ptr, batch_ptr, roi, reads, writes>>
  /\ UNCHANGED parVars

Next ==
  \/ LayerSetUp
  \/ Reshape
  \/ ForwardBegin
  \/ ForwardROI
  \/ ForwardChannel
  \/ ForwardNextROI
  \/ ForwardReturn

-----------------------------------------------------------------------------
(* The (roi, channel) iterations of lines 118-169 as units executed in any  *)
(* order, each on the pointers the loop gives it, into par_top and par_arg. *)

seqVars == <<layer_param, param, bottom, rois, channels_, height_, width_, top_data, argmax_data,
             pc, n, c, top_ptr, batch_ptr, roi, reads, writes>>

\* the output pointers not advanced per channel
TopOffsetPerRoi(un, uc) ==
  (un * channels_) * Offset(channels_, param.pooled_height_, param.pooled_width_, 0, 1)

\* lines 60-63, 167-168: top_data and argmax_data at iteration (n, c), after
\* n * channels_ + c steps of top[0]->offset(0, 1)
TopOffset(un, uc) ==
  (un * channels_ + uc) * Offset(channels_, param.pooled_height_, param.pooled_width_, 0, 1)

\* lines 116, 166: batch_data at channel c of the ROI's image
BatchOffset(g, uc) ==
  Offset(bottom.channels, bottom.height, bottom.width, g.roi_batch_ind, 0)
    + uc * Offset(bottom.channels, bottom.height, bottom.width, 0, 1)

\* lines 59-63 for the out-of-order execution, once the loop has returned
ParBegin ==
  /\ par_pc = "idle"
  /\ pc = "done"
  /\ par_top' = [i \in 0 .. TopCount - 1 |-> NegFltMax]
  /\ par_arg' = [i \in 0 .. TopCount - 1 |-> -1]
  /\ par_pc' = "units"
  /\ UNCHANGED <<par_done, par_last, par_touched>>
  /\ UNCHANGED seqVars

\* lines 67-169 for the ROI un and the channel uc alone
ParUnit(un, uc) ==
  /\ par_pc = "units"
  /\ <<un, uc>> \notin par_done
  /\ LET g == ROIGeometry(rois[un + 1], param)
         st == PoolChannel(g, 0, 0,
                           [top |-> par_top, arg |-> par_arg, reads |-> {}, writes |-> {}],
                           TopOffset(un, uc), BatchOffset(g, uc), param, bottom.data,
                           height_, width_)
     IN /\ BatchIndOk(g.roi_batch_ind, bottom.num)
        /\ par_top' = st.top
        /\ par_arg' = st.arg
        /\ par_touched' = par_touched \cup {<<un, uc, off>> : off \in st.writes}
  /\ par_done' = par_done \cup {<<un, uc>>}
  /\ par_last' = <<un, uc>>
  /\ UNCHANGED par_pc
  /\ UNCHANGED seqVars

Units == (0 .. NumRois - 1) \X (0 .. channels_ - 1)

\* every unit has run
ParFinish ==
  /\ par_pc = "units"
  /\ par_done = Units
  /\ par_pc' = "done"
  /\ UNCHANGED <<par_top, par_arg, par_done, par_last, par_touched>>
  /\ UNCHANGED seqVars

NextPar ==
  \/ Next
  \/ ParBegin
  \/ \E un \in 0 .. NumRois - 1, uc \in 0 .. channels_ - 1 : ParUnit(un, uc)
  \/ ParFinish

-----------------------------------------------------------------------------
(* Inputs.                                                                  *)

MaxRois == 2          \* ROIs per call
MaxCoord == 3         \* ROI coordinates range over -1 .. MaxCoord

Half == Rat(1, 2)
One == FromInt(1)
Two == FromInt(2)
Zero == FromInt(0)

\* the feature-map values: the sentinel, negative, zero, positive
Dtypes == {NegFltMax, -1, 0, 1}

\* the ROIMaskPoolingParameter message of the layer, as the prototxt gives it
Param(ph, pw, sscale, sshift, hp, rscale, mscale) ==
  [pooled_h |-> ph, pooled_w |-> pw, spatial_scale |-> sscale,
   spatial_shift |-> sshift, half_part |-> hp, roi_scale |-> rscale,
   mask_scale |-> mscale]

\* bottom[0] of shape (num, chn, hgt, wid): slice k of the blob holds the plane
\* rotated by k cells, so that the slices of a non-constant plane differ
Blob(num, chn, hgt, wid, plane) ==
  [num |-> num, channels |-> chn, height |-> hgt, width |-> wid,
   data |-> [i \in 0 .. num * chn * hgt * wid - 1 |->
               plane[((i % (hgt * wid)) + (i \div (hgt * wid))) % (hgt * wid)]]]

Planes(hgt, wid, V) == [0 .. hgt * wid - 1 -> V]

Coords == -1 .. MaxCoord

RoiLists(R) == UNION {[1 .. k -> R] : k \in 0 .. MaxRois}

\* the layer as constructed, before LayerSetUp
InitWith(P, B, R) ==
  /\ layer_param \in P
  /\ param = NoParam
  /\ bottom \in B
  /\ rois \in R
  /\ channels_ = 0 /\ height_ = 0 /\ width_ = 0
  /\ top_data = <<>> /\ argmax_data = <<>>
  /\ pc = "setup"
  /\ n = 0 /\ c = 0 /\ top_ptr = 0 /\ batch_ptr = 0
  /\ roi = NoRoi
  /\ reads = {} /\ writes = {}
  /\ par_top = <<>> /\ par_arg = <<>>
  /\ par_done = {} /\ par_last = <<>> /\ par_touched = {}

\* values, masks and ties: every 2x2 plane; ROIs over the map, partly and wholly
\* off it, and one whose mask covers the first column of its region only
InitValues ==
  InitWith({Param(pp[1], pp[2], One, Zero, 0, One, ms) :
              pp \in {<<1, 1>>, <<1, 2>>, <<2, 2>>}, ms \in {Zero, Half, One}},
           {Blob(1, 1, 2, 2, pl) : pl \in Planes(2, 2, Dtypes)},
           {<<r>> : r \in {<<0, 0, 2, 0, 1>>, <<0, 0, 1, 0, 1>>, <<0, 1, 3, 0, 0>>,
                          <<0, 2, 3, 0, 1>>, <<0, -3, 1, 0, 1>>}})

\* geometry: every half_part_, scales, shifts, the mask over the whole ROI; ROI
\* coordinates on and off the 2x3 map, x2 < x1 and y2 < y1 included; a plane
\* with a value below the sentinel
GeomPairs == {<<0, 1>>, <<2, 0>>, <<-1, 3>>, <<1, 1>>}
InitGeometry ==
  InitWith({Param(pp, pp, ss, sh, hp, rs, ms) :
              pp \in 1 .. 2, ss \in {Half, One}, sh \in {Zero, Half}, hp \in 0 .. 4,
              rs \in {One, Two}, ms \in {One}},
           {Blob(1, 1, 2, 3, [i \in 0 .. 5 |-> IF i = 4 THEN NegFltMax - 1 ELSE i - 2])},
           {<<(<<0>> \o a \o b)>> : a \in Coords \X Coords, b \in GeomPairs}
             \cup {<<(<<0>> \o a \o b)>> : a \in GeomPairs, b \in Coords \X Coords})

\* batch indices: two images of two channels, ROI lists whose batch_index runs
\* over -1 .. batch_size
InitBatch ==
  InitWith({Param(1, 2, One, Zero, 0, One, ms) : ms \in {Zero, Half}},
           {Blob(2, 2, 1, 2, pl) : pl \in Planes(1, 2, Dtypes)},
           RoiLists({<<b, x[1], x[2], 0, 0>> : b \in -1 .. 2, x \in {<<0, 1>>, <<1, 2>>}}))

\* a coordinate at which consecutive integers stop being Dtype values
BigCoord == 2^MantDig

\* Dtype rounding.  A ROI of 7 rows pooled into 13: 13 * (7 / 13) computed in
\* Dtype lies above 7, on maps of 7 and 8 rows.  ROIs with a coordinate at
\* BigCoord, whose center and rescaled bounds are rounded, in every
\* half_part_.
InitRounding ==
  \/ InitWith({Param(13, 1, One, Zero, 0, One, ms) : ms \in {Zero, One}},
              {Blob(1, 1, hgt, 1, [i \in 0 .. hgt - 1 |-> i - 1]) : hgt \in 7 .. 8},
              {<< <<0, 0, 0, y1, y2>> >> : y1 \in 0 .. 1, y2 \in 5 .. 7})
  \/ InitWith({Param(pp, pp, ss, Zero, hp, rs, One) :
                 pp \in 1 .. 2, ss \in {Half, One}, hp \in 0 .. 4, rs \in {One, Two}},
              {Blob(1, 1, 2, 3, [i \in 0 .. 5 |-> i - 2])},
              {<< <<0, 1, BigCoord, 0, 1>> >>, << <<0, 0, 1, -BigCoord, 1>> >>,
               << <<0, -1, BigCoord - 2, 1, BigCoord>> >>})

\* pooled sizes LayerSetUp rejects, and the smallest it accepts
InitSetUp ==
  InitWith({Param(ph, pw, One, Zero, 0, One, One) : ph \in -1 .. 1, pw \in -1 .. 1},
           {Blob(1, 1, 2, 2, [i \in 0 .. 3 |-> i])},
           {<< <<0, 0, 1, 0, 1>> >>})

Init ==
  /\ InitValues \/ InitGeometry \/ InitBatch \/ InitRounding \/ InitSetUp
  /\ par_pc = "off"

Spec == Init /\ [][Next]_vars

\* the units in any order: two images of two channels whose four slices differ,
\* ROIs that pass the check
InitPar ==
  /\ InitWith({Param(1, 2, One, Zero, 0, One, ms) : ms \in {Zero, Half}},
              {Blob(2, 2, 1, 2, pl) : pl \in {q \in Planes(1, 2, {-1, 1}) : q[0] # q[1]}},
              RoiLists({<<0, 0, 1, 0, 0>>, <<1, 0, 1, 0, 0>>, <<1, 1, 2, 0, 0>>}))
  /\ par_pc = "idle"

SpecPar == InitPar /\ [][NextPar]_vars

MaxBase == 4          \* the scenario's first value ranges over 0 .. MaxBase
MaxStride == 4        \* and the step between consecutive values over 1 .. MaxStride

\* the scenario of a 4x4 map of increasing values and the ROI (0, 0, 0, 3, 3)
InitScenario ==
  /\ InitWith({Param(2, 2, One, Zero, 0, One, Zero)},
              {Blob(1, 1, 4, 4, [i \in 0 .. 15 |-> b + s * i]) :
                 b \in 0 .. MaxBase, s \in 1 .. MaxStride},
              {<< <<0, 0, 0, 3, 3>> >>})
  /\ par_pc = "off"

SpecScenario == InitScenario /\ [][Next]_vars

-----------------------------------------------------------------------------
(* What the properties speak of: the output cells of a call.                *)

PH == param.pooled_height_
PW == param.pooled_width_
Done == pc = "done"

\* the output cells (roi, channel, ph, pw) of the call
Cells == (0 .. NumRois - 1) \X (0 .. channels_ - 1) \X (0 .. PH - 1) \X (0 .. PW - 1)
\* Blob::offset(roi, channel, ph, pw) in top[0] and max_idx_
CellAt(k) == ((k[1] * channels_ + k[2]) * PH + k[3]) * PW + k[4]
GeomOf(k) == ROIGeometry(rois[k[1] + 1], param)
\* the clamped region of cell k of a ROI of geometry g
WindowIn(g, k) == Window(g, k[3], k[4], height_, width_)
WindowOf(k) == WindowIn(GeomOf(k), k)
\* the feature-map cells <<h, w>> of a region
Region(win) == (win.hstart .. win.hend - 1) \X (win.wstart .. win.wend - 1)
\* the raw value at (roi.batch_index, channel, h, w)
RawAt(g, k, h, w) ==
  bottom.data[((g.roi_batch_ind * bottom.channels + k[2]) * bottom.height + h)
              * bottom.width + w]
Masked(g, h, w) == g.isMask /\ InMask(g, h, w)
\* the value compared: the raw value, or 0 for a masked cell
Compared(g, k, h, w) == IF Masked(g, h, w) THEN 0 ELSE RawAt(g, k, h, w)
\* C's integer division and remainder, which truncate toward zero
CDiv(a, b) == IF a >= 0 THEN a \div b ELSE -((-a) \div b)
CMod(a, b) == a - b * CDiv(a, b)
ArgRow(k) == CDiv(argmax_data[CellAt(k)], width_)
ArgCol(k) == CMod(argmax_data[CellAt(k)], width_)

\* C1: after Forward_cpu, argmax is -1 exactly for the cells whose clamped region
\* is empty, and a cell with argmax -1 holds the pooled value 0.
C1_EmptyIffNoArgmax ==
  Done => \A k \in Cells :
            /\ (argmax_data[CellAt(k)] = -1) <=> IsEmpty(WindowOf(k))
            /\ (argmax_data[CellAt(k)] = -1) => top_data[CellAt(k)] = 0

\* C2, as stated: with mask_scale > 0, a cell inside the mask rectangle is the
\* argmax of a bin only if every cell of the bin's region is inside the mask
\* rectangle.
C2_MaskedArgmaxOnlyIfAllMasked ==
  Done => \A k \in Cells :
            LET g == GeomOf(k)
            IN (argmax_data[CellAt(k)] # -1 /\ Masked(g, ArgRow(k), ArgCol(k)))
                 => \A hw \in Region(WindowIn(g, k)) : Masked(g, hw[1], hw[2])

\* C2, amended: a cell inside the mask rectangle is the argmax of a bin only if
\* no unmasked cell of the bin's region holds a value above 0.
C2_MaskedArgmaxOnlyIfNoPositive ==
  Done => \A k \in Cells :
            LET g == GeomOf(k)
            IN (argmax_data[CellAt(k)] # -1 /\ Masked(g, ArgRow(k), ArgCol(k)))
                 => \A hw \in Region(WindowIn(g, k)) :
                      Masked(g, hw[1], hw[2]) \/ RawAt(g, k, hw[1], hw[2]) <= 0

\* a masked cell is the argmax of a bin that also holds an unmasked cell
C2_Witness ==
  Done /\ \E k \in Cells :
            LET g == GeomOf(k)
            IN /\ argmax_data[CellAt(k)] # -1
               /\ Masked(g, ArgRow(k), ArgCol(k))
               /\ \E hw \in Region(WindowIn(g, k)) : ~Masked(g, hw[1], hw[2])

\* C5: a cell with a non-empty region holds the raw value at the decoded argmax
\* (0 if that cell is masked), and the decoded argmax lies in the region.
C5_ArgmaxConsistent ==
  Done => \A k \in Cells :
            LET g == GeomOf(k)
                win == WindowIn(g, k)
            IN ~IsEmpty(win) =>
                 /\ <<ArgRow(k), ArgCol(k)>> \in Region(win)
                 /\ top_data[CellAt(k)] = Compared(g, k, ArgRow(k), ArgCol(k))

\* the first cell, in row-major order, that holds the largest compared value
MaxCompared(g, k, win) ==
  CHOOSE m \in {Compared(g, k, hw[1], hw[2]) : hw \in Region(win)} :
    \A hw \in Region(win) : Compared(g, k, hw[1], hw[2]) <= m
FirstMax(g, k, win) ==
  LET m == MaxCompared(g, k, win)
  IN CHOOSE i \in {hw[1] * width_ + hw[2] : hw \in Region(win)} :
       \A hw \in Region(win) :
         /\ (hw[1] * width_ + hw[2] = i) => Compared(g, k, hw[1], hw[2]) = m
         /\ (Compared(g, k, hw[1], hw[2]) = m) => i <= hw[1] * width_ + hw[2]

\* C7: the argmax of a bin is the first cell, in row-major order, that holds the
\* largest compared value of the bin's region.
C7_FirstMaxWins ==
  Done => \A k \in Cells :
            LET g == GeomOf(k)
                win == WindowIn(g, k)
            IN ~IsEmpty(win) => argmax_data[CellAt(k)] = FirstMax(g, k, win)

AllMasked(g, win) == \A hw \in Region(win) : Masked(g, hw[1], hw[2])
NoneExceeds(g, k, win) ==
  \A hw \in Region(win) : Compared(g, k, hw[1], hw[2]) <= NegFltMax

\* C9, as stated: a non-empty bin whose cells are all masked, or in which no
\* compared value exceeds the sentinel, ends with argmax -1 and value 0.
C9_NoCandidateIsEmpty ==
  Done => \A k \in Cells :
            LET g == GeomOf(k)
                win == WindowIn(g, k)
            IN (~IsEmpty(win) /\ (AllMasked(g, win) \/ NoneExceeds(g, k, win)))
                 => argmax_data[CellAt(k)] = -1 /\ top_data[CellAt(k)] = 0

\* C9, the all-masked bins alone: a non-empty bin whose cells are all masked
\* ends with value 0 and the argmax of its first cell, as the scan of lines
\* 146-162 compares every masked cell as 0.
C9_AllMaskedOutcome ==
  Done => \A k \in Cells :
            LET g == GeomOf(k)
                win == WindowIn(g, k)
            IN (~IsEmpty(win) /\ AllMasked(g, win)) =>
                 /\ top_data[CellAt(k)] = 0
                 /\ argmax_data[CellAt(k)] = win.hstart * width_ + win.wstart

\* a non-empty bin of several cells, all masked
C9_Witness ==
  Done /\ \E k \in Cells :
            LET g == GeomOf(k)
                win == WindowIn(g, k)
            IN Cardinality(Region(win)) > 1 /\ AllMasked(g, win)

\* the batch_index precondition of the ROI at position k of the list
ValidRoi(k) == rois[k + 1][1] >= 0 /\ rois[k + 1][1] < bottom.num
\* the output cells of the ROIs at positions from k on
CellsFrom(k) == {q \in Cells : q[1] >= k}

\* C4, as stated: at a precondition failure the output arrays hold nothing
\* pooled by the call (every cell still holds the initial fill, which the
\* statement is not held to count), wherever the offending ROI stands.
C4_FailureLeavesNoOutput ==
  pc = "failed" => \A i \in DOMAIN top_data :
                     top_data[i] = NegFltMax /\ argmax_data[i] = -1

\* C4, amended: the call fails at the first ROI whose batch_index is outside
\* [0, batch_size); the cells of that ROI and of every later one hold the
\* initial fill, and the pointers stand at the start of that ROI's output.
C4_FailureAtFirstBadRoi ==
  pc = "failed" =>
    /\ n < NumRois /\ ~ValidRoi(n)
    /\ \A k \in 0 .. n - 1 : ValidRoi(k)
    /\ top_ptr = n * channels_ * PH * PW
    /\ \A q \in CellsFrom(n) :
         top_data[CellAt(q)] = NegFltMax /\ argmax_data[CellAt(q)] = -1

\* the call failed at a later ROI, after pooling an earlier one
C4_Witness ==
  /\ pc = "failed"
  /\ n > 0
  /\ \E q \in Cells : q[1] < n /\ argmax_data[CellAt(q)] # -1

\* the locals of the current ROI had half_part_ been 0
FullRoi == ROIGeometry(rois[n + 1], [param EXCEPT !.half_part_ = 0])
AtRoi == pc = "channel"

\* the numerator of the Dtype a over the denominator d, a multiple of a's
Over(a, d) == a[1] * (d \div a[2])
\* hi - lo is exactly half of fhi - flo, as real numbers
Halved(lo, hi, flo, fhi) ==
  LET d == Max(Max(lo[2], hi[2]), Max(flo[2], fhi[2]))
  IN 2 * (Over(hi, d) - Over(lo, d)) = Over(fhi, d) - Over(flo, d)

\* what the switch of lines 83-90 leaves of the rescaled ROI full: in mode 1
\* xx2 is xc, in mode 2 xx1 is xc, and the other x bound, yy1, yy2 and
\* roi_height are those of half_part_ = 0; in modes 3 (yy2) and 4 (yy1) the
\* same with x and y exchanged
HalfKept(full) ==
  /\ param.half_part_ \in {1, 2} =>
       /\ roi.yy1 = full.yy1 /\ roi.yy2 = full.yy2
       /\ param.half_part_ = 1 => roi.xx1 = full.xx1 /\ roi.xx2 = roi.xc
       /\ param.half_part_ = 2 => roi.xx2 = full.xx2 /\ roi.xx1 = roi.xc
       /\ roi.roi_height = full.roi_height
  /\ param.half_part_ \in {3, 4} =>
       /\ roi.xx1 = full.xx1 /\ roi.xx2 = full.xx2
       /\ param.half_part_ = 3 => roi.yy1 = full.yy1 /\ roi.yy2 = roi.yc
       /\ param.half_part_ = 4 => roi.yy2 = full.yy2 /\ roi.yy1 = roi.yc
       /\ roi.roi_width = full.roi_width

\* the rescaled extent xx2 - xx1 (modes 1, 2) or yy2 - yy1 (modes 3, 4) is
\* exactly half of its half_part_ = 0 value
HalfExtent(full) ==
  /\ param.half_part_ \in {1, 2} => Halved(roi.xx1, roi.xx2, full.xx1, full.xx2)
  /\ param.half_part_ \in {3, 4} => Halved(roi.yy1, roi.yy2, full.yy1, full.yy2)

\* C8, as stated: the rescaled extent is exactly halved, the other axis is
\* unchanged, and roi_width (modes 1, 2) or roi_height (modes 3, 4) is half of
\* its half_part_ = 0 value.
C8_HalfPartHalvesCells ==
  (AtRoi /\ param.half_part_ \in 1 .. 4) =>
    LET full == FullRoi
    IN /\ HalfKept(full)
       /\ HalfExtent(full)
       /\ param.half_part_ \in {1, 2} => 2 * roi.roi_width = full.roi_width
       /\ param.half_part_ \in {3, 4} => 2 * roi.roi_height = full.roi_height

\* inputs on which no operation of lines 74-95 rounds: integer coordinates of
\* magnitude at most ExactCoord, roi_scale_ and spatial_scale_ powers of two
\* from 1/4 to 4, spatial_shift_ a multiple of 1/4 of magnitude at most 4
ExactCoord == 2^12
ExactScales == {Rat(1, 4), Half, One, Two, FromInt(4)}
ExactInputs ==
  /\ \A i \in 2 .. 5 : Abs(rois[n + 1][i]) <= ExactCoord
  /\ param.roi_scale_ \in ExactScales
  /\ param.spatial_scale_ \in ExactScales
  /\ param.spatial_shift_ \in {Rat(i, 4) : i \in -16 .. 16}

\* C8, amended: one bound of the halved axis is the center and everything else
\* of the rescaled ROI is as with half_part_ = 0; on inputs on which the Dtype
\* arithmetic does not round, the extent is exactly halved and roi_width
\* (modes 1, 2) or roi_height (modes 3, 4) is half of its half_part_ = 0 value
\* rounded up to a cell: twice it exceeds that value by 0, 1 or 2.
C8_HalfPartHalvesExtent ==
  (AtRoi /\ param.half_part_ \in 1 .. 4) =>
    LET full == FullRoi
    IN /\ HalfKept(full)
       /\ ExactInputs =>
            /\ HalfExtent(full)
            /\ param.half_part_ \in {1, 2} => (2 * roi.roi_width - full.roi_width) \in 0 .. 2
            /\ param.half_part_ \in {3, 4} => (2 * roi.roi_height - full.roi_height) \in 0 .. 2

\* a half of a ROI of several cells, scaled by roi_scale_ # 1 without rounding,
\* whose roi_width is not half of the whole ROI's
C8_Witness ==
  /\ AtRoi
  /\ param.half_part_ = 1
  /\ ~REq(param.roi_scale_, One)
  /\ ExactInputs
  /\ FullRoi.roi_width > 2
  /\ 2 * roi.roi_width # FullRoi.roi_width

\* the offsets of the slice of bottom[0] the last channel iteration read from,
\* and of the slice of top[0] it wrote to
ReadSlice ==
  LET base == ((roi.roi_batch_ind * bottom.channels + (c - 1)) * height_) * width_
  IN {base + i : i \in 0 .. height_ * width_ - 1}
WriteSlice ==
  LET base == ((n * channels_ + (c - 1)) * PH) * PW
  IN {base + i : i \in 0 .. PH * PW - 1}

\* C10: for every ROI that passes the check, every bin's clamped bounds lie in
\* [0, height] and [0, width], every offset read lies in the feature-map slice
\* of the ROI's image and channel, and every write lies in the output slice of
\* the current ROI and channel.
C10_AccessesInBounds ==
  AtRoi =>
    /\ \A ph \in 0 .. PH - 1, pw \in 0 .. PW - 1 :
         LET win == Window(roi, ph, pw, height_, width_)
         IN /\ 0 <= win.hstart /\ win.hstart <= height_
            /\ 0 <= win.hend /\ win.hend <= height_
            /\ 0 <= win.wstart /\ win.wstart <= width_
            /\ 0 <= win.wend /\ win.wend <= width_
    /\ c > 0 => reads \subseteq ReadSlice /\ writes = WriteSlice

\* a channel of a ROI that reaches off the map, or has x2 < x1, was pooled and
\* read some cell
C10_Witness ==
  /\ AtRoi /\ c > 0
  /\ reads # {}
  /\ \/ roi.roi_start_w < 0
     \/ roi.roi_end_h >= height_
     \/ rois[n + 1][3] < rois[n + 1][2]

\* the 2x2 quadrant (ph, pw) of the 4x4 map, as flat indices row * width + col
Quadrant(ph, pw) == {(2 * ph + i) * 4 + (2 * pw + j) : i \in 0 .. 1, j \in 0 .. 1}
QuadrantArgmax(ph, pw) ==
  CHOOSE i \in Quadrant(ph, pw) :
    \A j \in Quadrant(ph, pw) : bottom.data[j] <= bottom.data[i]

\* C3: in the scenario Forward_cpu yields the 2x2 max-pool of the 4x4 grid: each
\* output cell holds the maximum of its quadrant and the flat index of it.
C3_ScenarioIsMaxPool ==
  Done => \A ph \in 0 .. 1, pw \in 0 .. 1 :
            /\ argmax_data[ph * 2 + pw] = QuadrantArgmax(ph, pw)
            /\ top_data[ph * 2 + pw] = bottom.data[QuadrantArgmax(ph, pw)]

\* C6: the units write disjoint sets of output cells, none touches a cell of
\* another, and run in any order they leave the output and argmax arrays of the
\* sequential loop.
C6_UnitsIndependent ==
  /\ \A t1 \in par_touched, t2 \in par_touched :
       t1[3] = t2[3] => (t1[1] = t2[1] /\ t1[2] = t2[2])
  /\ (Done /\ par_pc = "done") => (par_top = top_data /\ par_arg = argmax_data)

\* four units have run, the first of the loop last, and pooled different values
C6_Witness ==
  /\ Done /\ par_pc = "done"
  /\ Cardinality(par_done) = 4
  /\ par_last = <<0, 0>>
  /\ \E i \in DOMAIN par_arg, j \in DOMAIN par_arg :
       par_arg[i] # -1 /\ par_arg[j] # -1 /\ par_top[i] # par_top[j]

=============================================================================
